---- MODULE Spec2Model ----
(***************************************************************************)
(* antigravity-kit: profile store, active pointer and the add / switch /   *)
(* remove commands, modelled over an abstract filesystem.                  *)
(*                                                                         *)
(* The filesystem holds: the profile directories under the store root, the *)
(* live application data directory, and the entry at the active-pointer    *)
(* location.  A command runs alone (one invoking process); the application *)
(* process starts, exits and signs in between the command's await points.  *)
(***************************************************************************)
EXTENDS Integers, Sequences, FiniteSets, TLC

VARIABLES
    profiles,      \* profile directory name -> directory tree (or Absent)
    live,          \* the live application data directory (tree or Absent)
    ptr,           \* the entry at the active-pointer location
    appRunning,    \* whether an application process exists
    pc,            \* position of the running command
    cmd,           \* the running command
    selectedPath,  \* switch / remove: the profile path the user selected
    session,       \* add: the e-mail of the detected session
    baseline,      \* add: initialAuthState of the current watchForAuth call
    attempts,      \* switch: the retry loop's counter
    lastCheck,     \* result of the command's most recent isAntigravityRunning()
    lastSet,       \* the setActiveProfile call made by the last step, if any
    outcome,       \* how the command ended
    pre,           \* the filesystem as it was when the command started
    os,            \* platform()
    calls,         \* isAntigravityRunning calls followed in detail: command outcome and return
    watchers,      \* add: the watchForAuth calls made by the wait loop, oldest first
    now,           \* add: milliseconds since the wait loop started
    unitIn,        \* the arguments and surroundings of the function followed on its own
    unitOut,       \* what that function returned, or that it threw
    vault          \* the token storage: keychain entries and tokens.json

\* The variables of functions followed one at a time.
units == << unitIn, unitOut, vault >>

\* The variables of the detailed views (process enumeration, sign-in watchers,
\* single functions).
detail == << os, calls, watchers, now, units >>

vars == << profiles, live, ptr, appRunning, pc, cmd, selectedPath, session,
           baseline, attempts, lastCheck, lastSet, outcome, pre, detail >>

-----------------------------------------------------------------------------
(* Identities, names and paths *)

\* E-mail addresses are sequences of characters.
Emails == { <<"a">>, <<"b">>, <<"c", "+">> }

\* No session / no e-mail.
NoSession == << >>

\* The characters the sanitising regex /[^a-zA-Z0-9@._-]/g keeps.
SafeChars == { "a", "b", "c", "@", ".", "_", "-" }

\* email.replace(/[^a-zA-Z0-9@._-]/g, "_")
SafeEmail(email) ==
    [ i \in 1..Len(email) |-> IF email[i] \in SafeChars THEN email[i] ELSE "_" ]

\* The directory names a capture can create under the profiles directory.
ProfileNames == { SafeEmail(e) : e \in Emails }

PROFILES_DIR_NAME == "profiles"

\* join(getProfilesDir(), name)
ProfilePath(name) == [ dir |-> PROFILES_DIR_NAME, base |-> name ]

NoPath == [ dir |-> "", base |-> << >> ]

ProfilePaths == { ProfilePath(n) : n \in ProfileNames }

\* basename(path)
Basename(path) == path.base

-----------------------------------------------------------------------------
(* Directory trees *)

\* Entries of a data directory, by kind.
RegularEntries == { "settings.json" }
SpecialEntries == { "ipc.sock" }           \* sockets, FIFOs, device files
CLEANUP_DIRECTORIES == { "Cache" }
EntryNames == RegularEntries \cup SpecialEntries \cup CLEANUP_DIRECTORIES

\* A directory that does not exist.
Absent == [ exists |-> FALSE, session |-> NoSession, entries |-> {} ]

\* A data directory: the session its state database records, and its entries.
Tree(s, es) == [ exists |-> TRUE, session |-> s, entries |-> es ]

\* What a running, signed-in application leaves in its data directory.
AppTree(s) == Tree(s, EntryNames)

\* The cpSync filter: sockets, FIFOs and device files are skipped.
CopyFilter(es) == { e \in es : e \notin SpecialEntries }

\* cpSync(source, destination, {recursive, filter}) onto `dest`: entries of the
\* source that pass the filter are written over the destination's.
CpSync(source, dest) ==
    Tree(source.session,
         (IF dest.exists THEN dest.entries ELSE {}) \cup CopyFilter(source.entries))

\* cleanupProfile: the cache and log directories are removed.
CleanupProfile(tree) ==
    [ tree EXCEPT !.entries = tree.entries \ CLEANUP_DIRECTORIES ]

-----------------------------------------------------------------------------
(* The active pointer (symlink-manager.ts) *)

NoEntry == [ kind |-> "absent", target |-> NoPath ]
OtherEntry == [ kind |-> "file", target |-> NoPath ]   \* a regular file or directory
Symlink(path) == [ kind |-> "symlink", target |-> path ]

\* Whether a path names an existing directory of the store.
PathExists(profs, path) ==
    /\ path \in ProfilePaths
    /\ profs[Basename(path)].exists

\* existsSync(symlinkPath): follows symbolic links, so a link whose target is
\* gone is reported as not existing.
ExistsSync(p, profs) ==
    \/ p.kind = "file"
    \/ p.kind = "symlink" /\ PathExists(profs, p.target)

\* setActiveProfile(profilePath): the resulting entry and the returned boolean.
\* symlinkSync throws EEXIST when an entry is still there; the catch returns false.
SetActiveProfile(p, profs, path) ==
    LET afterRm == IF ExistsSync(p, profs) THEN NoEntry ELSE p
    IN  IF afterRm.kind = "absent"
        THEN [ ok |-> TRUE, ptr |-> Symlink(path) ]
        ELSE [ ok |-> FALSE, ptr |-> afterRm ]

\* Variant: the existsSync test is left out, the link is read whatever it points to.
GetActiveProfilePath_NoExistsCheck(p, profs) ==
    IF p.kind # "symlink" THEN NoPath ELSE p.target

\* getActiveProfilePath(): the link's target, or NoPath for null.
GetActiveProfilePath(p, profs) ==
    IF ~ExistsSync(p, profs) THEN NoPath
    ELSE IF p.kind # "symlink" THEN NoPath
    ELSE p.target

\* isActiveProfile(profilePath)
IsActiveProfile(p, profs, path) ==
    LET activeProfilePath == GetActiveProfilePath(p, profs)
    IN  IF activeProfilePath = NoPath THEN FALSE
        ELSE \/ activeProfilePath = path
             \/ Basename(activeProfilePath) = Basename(path)

\* removeActiveSymlink(): the resulting entry (it returns true).
RemoveActiveSymlink(p, profs) ==
    IF ExistsSync(p, profs) THEN NoEntry ELSE p

-----------------------------------------------------------------------------
(* The profile store (profile-manager.ts) *)

\* listProfiles(): the paths of the directories under the profiles directory.
ListProfiles(profs) == { ProfilePath(n) : n \in { m \in ProfileNames : profs[m].exists } }

\* removeProfile(profilePath): the resulting store.
RemoveProfile(profs, path) ==
    [ profs EXCEPT ![Basename(path)] = Absent ]

\* Variant: an existing profile directory is not removed before the copy.
CopyDefaultProfileToStorage_Merge(profs, liveDir, email) ==
    [ profs EXCEPT ![SafeEmail(email)] =
          CleanupProfile(CpSync(liveDir, profs[SafeEmail(email)])) ]

\* copyDefaultProfileToStorage(email): the resulting store.
CopyDefaultProfileToStorage(profs, liveDir, email) ==
    [ profs EXCEPT ![SafeEmail(email)] = CleanupProfile(CpSync(liveDir, Absent)) ]

\* Variant: the live directory is not removed before the copy (a merge).
RestoreProfileToDefault_Merge(profs, liveDir, path) ==
    CpSync(profs[Basename(path)], liveDir)

\* restoreProfileToDefault(profilePath), no failure: the live directory is
\* removed, then the profile is copied to its place.
RestoreProfileToDefault(profs, liveDir, path) ==
    CpSync(profs[Basename(path)], Absent)

\* Trees a failed recursive removal or a failed copy can leave behind on the
\* way between the empty directory and `tree`: the state database and the other
\* entries are there or not.
PartialTrees(tree) ==
    { Tree(s, es) : s \in { tree.session, NoSession }, es \in { tree.entries, {} } }

-----------------------------------------------------------------------------
(* The application process (antigravity-launcher.ts) *)

\* isAntigravityRunning(): the process enumeration's answer, or false when the
\* enumeration itself fails.
IsAntigravityRunning(enumFails) == IF enumFails THEN FALSE ELSE appRunning

CheckResult(r) == IF r THEN "running" ELSE "notRunning"

\* Values of platform(): three the launcher knows and one it does not.
Platforms == { "darwin", "linux", "win32", "freebsd" }

\* Standard output is a sequence of words; "\n" and " " are white space.
WhiteSpace == { "\n", " " }

\* String.prototype.trim()
RECURSIVE TrimStart(_)
TrimStart(out) ==
    IF out # << >> /\ Head(out) \in WhiteSpace THEN TrimStart(Tail(out)) ELSE out

RECURSIVE TrimEnd(_)
TrimEnd(out) ==
    IF out # << >> /\ out[Len(out)] \in WhiteSpace
    THEN TrimEnd(SubSeq(out, 1, Len(out) - 1))
    ELSE out

Trim(out) == TrimEnd(TrimStart(out))

\* String.prototype.toLowerCase(), word by word.
ToLowerCase(out) ==
    [ i \in DOMAIN out |->
        IF out[i] = "Antigravity.exe" THEN "antigravity.exe"
        ELSE IF out[i] = "Antigravity" THEN "antigravity"
        ELSE out[i] ]

\* String.prototype.includes(word)
Includes(out, word) == \E i \in DOMAIN out : out[i] = word

\* How execAsync(command) ends: the promise resolves with the standard output
\* (exit status 0) or rejects (non-zero exit status, command not found).
Resolved(out) == [ kind |-> "resolved", stdout |-> out ]
Rejected == [ kind |-> "rejected", stdout |-> << >> ]
NotExecuted == [ kind |-> "none", stdout |-> << >> ]

\* The outcomes of the enumeration command of a platform. pgrep prints the
\* matching processes, and exits with status 1 when there is none; tasklist
\* prints the matching tasks or a notice that there is none, with status 0.
ExecOutcomes(platform, running) ==
    IF platform \in { "darwin", "linux" }
    THEN IF running
         THEN { Resolved(<< "4242", " ", "Antigravity", "\n" >>),
                Resolved(<< "4242", " ", "antigravity", "\n" >>), Rejected }
         ELSE { Rejected }
    ELSE IF platform = "win32"
    THEN IF running
         THEN { Resolved(<< "Antigravity.exe", " ", "4242", "\n" >>),
                Resolved(<< "antigravity.exe", " ", "4242", "\n" >>), Rejected }
         ELSE { Resolved(<< "INFO:", " ", "No", " ", "tasks", "\n" >>), Rejected }
    ELSE { NotExecuted }

Returns(value) == [ threw |-> FALSE, value |-> value ]
Throws == [ threw |-> TRUE, value |-> FALSE ]

\* Variant: no try/catch around the command, its rejection reaches the caller.
IsAntigravityRunningOn_NoCatch(platform, exec) ==
    IF platform \in { "darwin", "linux" }
    THEN IF exec.kind = "rejected" THEN Throws
         ELSE Returns(Len(Trim(exec.stdout)) > 0)
    ELSE IF platform = "win32"
    THEN IF exec.kind = "rejected" THEN Throws
         ELSE Returns(Includes(ToLowerCase(exec.stdout), "antigravity.exe"))
    ELSE Returns(FALSE)

\* isAntigravityRunning() on a platform, given how its command ends: what it
\* returns, or that it throws.
IsAntigravityRunningOn(platform, exec) ==
    IF platform \in { "darwin", "linux" }
    THEN IF exec.kind = "rejected" THEN Returns(FALSE)
         ELSE Returns(Len(Trim(exec.stdout)) > 0)
    ELSE IF platform = "win32"
    THEN IF exec.kind = "rejected" THEN Returns(FALSE)
         ELSE Returns(Includes(ToLowerCase(exec.stdout), "antigravity.exe"))
    ELSE Returns(FALSE)

maxAttempts == 30

-----------------------------------------------------------------------------
(* Initial state *)

NoPre == [ profiles |-> [ n \in ProfileNames |-> Absent ], live |-> Absent, ptr |-> NoEntry ]

NoSet == [ path |-> NoPath, ok |-> FALSE ]

Snapshot == [ profiles |-> profiles, live |-> live, ptr |-> ptr ]

\* The commands are followed on one platform, with the process enumeration and
\* the watchers taken as a whole; LauncherSpec and WatchSpec follow those.
NoUnit == [ op |-> "none" ]

NoVault == [ op |-> "none" ]

\* No single function is being followed.
UnitsIdle ==
    /\ unitIn = NoUnit
    /\ unitOut = NoUnit
    /\ vault = NoVault

DetailIdle ==
    /\ os = "darwin"
    /\ calls = << >>
    /\ watchers = << >>
    /\ now = 0
    /\ UnitsIdle

\* An empty store; the pointer location is empty or holds a foreign entry; the
\* application has been used (signed in or not) or was never started.
Init ==
    /\ profiles = [ n \in ProfileNames |-> Absent ]
    /\ live \in { Absent } \cup { AppTree(s) : s \in Emails \cup { NoSession } }
    /\ ptr \in { NoEntry, OtherEntry }
    /\ appRunning = FALSE
    /\ pc = "idle"
    /\ cmd = "none"
    /\ selectedPath = NoPath
    /\ session = NoSession
    /\ baseline = NoSession
    /\ attempts = 0
    /\ lastCheck = "none"
    /\ lastSet = NoSet
    /\ outcome = "none"
    /\ pre = NoPre
    /\ DetailIdle

\* A command ends: its result stays visible until the next command starts.
Exit(result) ==
    /\ pc' = "done"
    /\ outcome' = result

-----------------------------------------------------------------------------
(* The environment: the application process *)

\* The user starts the application.
AppStart ==
    /\ ~appRunning
    /\ pc # "sw_restore"
    /\ appRunning' = TRUE
    /\ lastSet' = NoSet
    /\ UNCHANGED << detail, profiles, live, ptr, pc, cmd, selectedPath, session, baseline,
                    attempts, lastCheck, outcome, pre >>

\* The application process exits.
AppExit ==
    /\ appRunning
    /\ pc # "sw_restore"
    /\ appRunning' = FALSE
    /\ lastSet' = NoSet
    /\ UNCHANGED << detail, profiles, live, ptr, pc, cmd, selectedPath, session, baseline,
                    attempts, lastCheck, outcome, pre >>

\* The user signs in (or out) in the running application, which rewrites its
\* data directory.  This happens between commands or while add waits for it.
AppSignIn(s) ==
    /\ appRunning
    /\ pc \in { "idle", "add_wait" }
    /\ live # AppTree(s)
    /\ live' = AppTree(s)
    /\ lastSet' = NoSet
    /\ UNCHANGED << detail, profiles, ptr, appRunning, pc, cmd, selectedPath, session,
                    baseline, attempts, lastCheck, outcome, pre >>

\* The next command may start.
Finish ==
    /\ pc = "done"
    /\ pc' = "idle"
    /\ cmd' = "none"
    /\ selectedPath' = NoPath
    /\ session' = NoSession
    /\ baseline' = NoSession
    /\ attempts' = 0
    /\ lastCheck' = "none"
    /\ lastSet' = NoSet
    /\ outcome' = "none"
    /\ pre' = NoPre
    /\ UNCHANGED << detail, profiles, live, ptr, appRunning >>

-----------------------------------------------------------------------------
(* auth switch (commands/auth/switch.ts) *)

\* A command starts from the prompt: the filesystem is remembered as it is.
Begin(name) ==
    /\ pc = "idle"
    /\ cmd' = name
    /\ pre' = Snapshot

\* No profile stored: exit(1).   One profile: "Nothing to switch".
SwitchTooFew ==
    /\ Begin("switch")
    /\ Cardinality(ListProfiles(profiles)) < 2
    /\ Exit(IF ListProfiles(profiles) = {} THEN "noProfiles" ELSE "single")
    /\ lastSet' = NoSet
    /\ UNCHANGED << detail, profiles, live, ptr, appRunning, selectedPath, session,
                    baseline, attempts, lastCheck >>

\* The selection (or a later choice before the liveness check) is cancelled.
SwitchCancel ==
    /\ Begin("switch")
    /\ Cardinality(ListProfiles(profiles)) >= 2
    /\ Exit("cancelled")
    /\ lastSet' = NoSet
    /\ UNCHANGED << detail, profiles, live, ptr, appRunning, selectedPath, session,
                    baseline, attempts, lastCheck >>

\* Variant: the result of the first isAntigravityRunning() is not acted on, the
\* swap starts at once.
SwitchSelect_NoCheck(path, enumFails) ==
    /\ Begin("switch")
    /\ Cardinality(ListProfiles(profiles)) >= 2
    /\ path \in ListProfiles(profiles)
    /\ selectedPath' = path
    /\ lastSet' = NoSet
    /\ IF IsActiveProfile(ptr, profiles, path)
       THEN /\ Exit("unchanged")
            /\ UNCHANGED lastCheck
       ELSE /\ lastCheck' = CheckResult(IsAntigravityRunning(enumFails))
            /\ pc' = "sw_set"
            /\ UNCHANGED outcome
    /\ UNCHANGED << detail, profiles, live, ptr, appRunning, session, baseline, attempts >>

\* The user selects a profile.  The active one: "Profile unchanged".  Another:
\* the first isAntigravityRunning() decides between the quit dialogue and the swap.
SwitchSelect(path, enumFails) ==
    /\ Begin("switch")
    /\ Cardinality(ListProfiles(profiles)) >= 2
    /\ path \in ListProfiles(profiles)
    /\ selectedPath' = path
    /\ lastSet' = NoSet
    /\ IF IsActiveProfile(ptr, profiles, path)
       THEN /\ Exit("unchanged")
            /\ UNCHANGED lastCheck
       ELSE /\ lastCheck' = CheckResult(IsAntigravityRunning(enumFails))
            /\ pc' = IF IsAntigravityRunning(enumFails) THEN "sw_confirm" ELSE "sw_set"
            /\ UNCHANGED outcome
    /\ UNCHANGED << detail, profiles, live, ptr, appRunning, session, baseline, attempts >>

\* Variant: declining still sends the kill command.
SwitchDecline_Quits ==
    /\ pc = "sw_confirm"
    /\ Exit("declined")
    /\ appRunning' = FALSE
    /\ lastSet' = NoSet
    /\ UNCHANGED << detail, profiles, live, ptr, cmd, selectedPath, session,
                    baseline, attempts, lastCheck, pre >>

\* "Close it to continue?" is declined or cancelled: exit(1).
SwitchDecline ==
    /\ pc = "sw_confirm"
    /\ Exit("declined")
    /\ lastSet' = NoSet
    /\ UNCHANGED << detail, profiles, live, ptr, appRunning, cmd, selectedPath, session,
                    baseline, attempts, lastCheck, pre >>

\* quitAntigravity(): the kill command is sent; the process may survive it.
SwitchQuit(killed) ==
    /\ pc = "sw_confirm"
    /\ appRunning' = (appRunning /\ ~killed)
    /\ attempts' = 0
    /\ pc' = "sw_loop"
    /\ lastSet' = NoSet
    /\ UNCHANGED << detail, profiles, live, ptr, cmd, selectedPath, session, baseline,
                    lastCheck, outcome, pre >>

\* Variant: the loop goes round once more than maxAttempts times.
SwitchPoll_OneMore(enumFails) ==
    /\ pc = "sw_loop"
    /\ attempts <= maxAttempts
    /\ lastCheck' = CheckResult(IsAntigravityRunning(enumFails))
    /\ IF ~IsAntigravityRunning(enumFails)
       THEN /\ pc' = "sw_final"
            /\ UNCHANGED attempts
       ELSE /\ attempts' = attempts + 1
            /\ pc' = IF attempts + 1 <= maxAttempts THEN "sw_loop" ELSE "sw_final"
    /\ lastSet' = NoSet
    /\ UNCHANGED << detail, profiles, live, ptr, appRunning, cmd, selectedPath, session,
                    baseline, outcome, pre >>

\* One round of the retry loop: wait a second, ask again, leave the loop on
\* "not running" or when attempts reaches maxAttempts.
SwitchPoll(enumFails) ==
    /\ pc = "sw_loop"
    /\ attempts < maxAttempts
    /\ lastCheck' = CheckResult(IsAntigravityRunning(enumFails))
    /\ IF ~IsAntigravityRunning(enumFails)
       THEN /\ pc' = "sw_final"
            /\ UNCHANGED attempts
       ELSE /\ attempts' = attempts + 1
            /\ pc' = IF attempts + 1 < maxAttempts THEN "sw_loop" ELSE "sw_final"
    /\ lastSet' = NoSet
    /\ UNCHANGED << detail, profiles, live, ptr, appRunning, cmd, selectedPath, session,
                    baseline, outcome, pre >>

\* Variant: the check after the loop does not stop the command.
SwitchFinalCheck_NoExit(enumFails) ==
    /\ pc = "sw_final"
    /\ lastCheck' = CheckResult(IsAntigravityRunning(enumFails))
    /\ pc' = "sw_set"
    /\ lastSet' = NoSet
    /\ UNCHANGED << detail, profiles, live, ptr, appRunning, cmd, selectedPath, session,
                    baseline, attempts, outcome, pre >>

\* The check after the loop: still running is exit(1), otherwise the swap starts.
SwitchFinalCheck(enumFails) ==
    /\ pc = "sw_final"
    /\ lastCheck' = CheckResult(IsAntigravityRunning(enumFails))
    /\ IF IsAntigravityRunning(enumFails)
       THEN Exit("stillRunning")
       ELSE /\ pc' = "sw_set"
            /\ UNCHANGED outcome
    /\ lastSet' = NoSet
    /\ UNCHANGED << detail, profiles, live, ptr, appRunning, cmd, selectedPath, session,
                    baseline, attempts, pre >>

\* setActiveProfile(selectedPath); a false result is exit(1).
SwitchSetActive ==
    /\ pc = "sw_set"
    /\ LET r == SetActiveProfile(ptr, profiles, selectedPath)
       IN  /\ ptr' = r.ptr
           /\ lastSet' = [ path |-> selectedPath, ok |-> r.ok ]
           /\ IF r.ok
              THEN /\ pc' = "sw_restore"
                   /\ UNCHANGED outcome
              ELSE Exit("setActiveFailed")
    /\ UNCHANGED << detail, profiles, live, appRunning, cmd, selectedPath, session,
                    baseline, attempts, lastCheck, pre >>

\* Variant: the profile directory is moved to the live directory, not copied.
SwitchRestore_Moves(rm, cpOk) ==
    /\ pc = "sw_restore"
    /\ PathExists(profiles, selectedPath)
    /\ live' = RestoreProfileToDefault(profiles, live, selectedPath)
    /\ profiles' = RemoveProfile(profiles, selectedPath)
    /\ pc' = "sw_launch"
    /\ lastSet' = NoSet
    /\ UNCHANGED << detail, ptr, appRunning, cmd, selectedPath, session, baseline,
                    attempts, lastCheck, outcome, pre >>

\* restoreProfileToDefault(selectedPath).  rm is how the removal of the live
\* directory ends ("busy": ENOTEMPTY, EBUSY or EPERM), cpOk whether the copy
\* completes.
SwitchRestore(rm, cpOk) ==
    /\ pc = "sw_restore"
    /\ IF ~PathExists(profiles, selectedPath)
       THEN /\ Exit("restoreFailed")
            /\ UNCHANGED live
       ELSE IF live.exists /\ rm # "ok"
       THEN /\ live' \in PartialTrees(live)
            /\ Exit(IF rm = "busy" THEN "busy" ELSE "ioError")
       ELSE IF ~cpOk
       THEN /\ live' \in PartialTrees(RestoreProfileToDefault(profiles, live, selectedPath))
            /\ Exit("ioError")
       ELSE /\ live' = RestoreProfileToDefault(profiles, live, selectedPath)
            /\ pc' = "sw_launch"
            /\ UNCHANGED outcome
    /\ lastSet' = NoSet
    /\ UNCHANGED << detail, profiles, ptr, appRunning, cmd, selectedPath, session,
                    baseline, attempts, lastCheck, pre >>

\* "Launch Antigravity with the new profile?": declined or cancelled.
SwitchNoLaunch ==
    /\ pc = "sw_launch"
    /\ Exit("switched")
    /\ lastSet' = NoSet
    /\ UNCHANGED << detail, profiles, live, ptr, appRunning, cmd, selectedPath, session,
                    baseline, attempts, lastCheck, pre >>

\* Launch: a still running application is asked to quit, then it is opened.
SwitchLaunch(enumFails, killed, opened) ==
    /\ pc = "sw_launch"
    /\ lastCheck' = CheckResult(IsAntigravityRunning(enumFails))
    /\ appRunning' =
          IF opened THEN TRUE
          ELSE IF IsAntigravityRunning(enumFails) THEN appRunning /\ ~killed
          ELSE appRunning
    /\ Exit("switched")
    /\ lastSet' = NoSet
    /\ UNCHANGED << detail, profiles, live, ptr, cmd, selectedPath, session, baseline,
                    attempts, pre >>

SwitchStep ==
    \/ SwitchTooFew
    \/ SwitchCancel
    \/ \E path \in ProfilePaths, enumFails \in BOOLEAN : SwitchSelect(path, enumFails)
    \/ SwitchDecline
    \/ \E killed \in BOOLEAN : SwitchQuit(killed)
    \/ \E enumFails \in BOOLEAN : SwitchPoll(enumFails)
    \/ \E enumFails \in BOOLEAN : SwitchFinalCheck(enumFails)
    \/ SwitchSetActive
    \/ \E rm \in { "ok", "busy", "error" }, cpOk \in BOOLEAN : SwitchRestore(rm, cpOk)
    \/ SwitchNoLaunch
    \/ \E enumFails, killed, opened \in BOOLEAN : SwitchLaunch(enumFails, killed, opened)

-----------------------------------------------------------------------------
(* auth remove (commands/auth/remove.ts) *)

\* No profile stored: exit(1).
RemoveNoProfiles ==
    /\ Begin("remove")
    /\ ListProfiles(profiles) = {}
    /\ Exit("noProfiles")
    /\ lastSet' = NoSet
    /\ UNCHANGED << detail, profiles, live, ptr, appRunning, selectedPath, session,
                    baseline, attempts, lastCheck >>

\* The selection is cancelled or the removal is not confirmed: exit(0).
RemoveCancel ==
    /\ Begin("remove")
    /\ ListProfiles(profiles) # {}
    /\ Exit("cancelled")
    /\ lastSet' = NoSet
    /\ UNCHANGED << detail, profiles, live, ptr, appRunning, selectedPath, session,
                    baseline, attempts, lastCheck >>

\* removeProfile fails (rmSync throws at once): exit(1).
RemoveFails(path) ==
    /\ Begin("remove")
    /\ path \in ListProfiles(profiles)
    /\ selectedPath' = path
    /\ Exit("removeFailed")
    /\ lastSet' = NoSet
    /\ UNCHANGED << detail, profiles, live, ptr, appRunning, session, baseline, attempts,
                    lastCheck >>

\* The selected profile is removed.  isActive was read before the removal; when
\* it was true, the first profile listProfiles() now returns (first: readdir
\* order) is made active, or the pointer is cleared when none is left.
Remove(path, first) ==
    /\ Begin("remove")
    /\ path \in ListProfiles(profiles)
    /\ selectedPath' = path
    /\ LET isActive == IsActiveProfile(ptr, profiles, path)
           remaining == RemoveProfile(profiles, path)
       IN  /\ profiles' = remaining
           /\ first \in ListProfiles(remaining) \cup { NoPath }
           /\ first = NoPath <=> ListProfiles(remaining) = {}
           /\ IF isActive /\ first # NoPath
              THEN LET r == SetActiveProfile(ptr, remaining, first)
                   IN  /\ ptr' = r.ptr
                       /\ lastSet' = [ path |-> first, ok |-> r.ok ]
              ELSE IF isActive
              THEN /\ ptr' = RemoveActiveSymlink(ptr, remaining)
                   /\ lastSet' = NoSet
              ELSE /\ UNCHANGED ptr
                   /\ lastSet' = NoSet
    /\ Exit("removed")
    /\ UNCHANGED << detail, live, appRunning, session, baseline, attempts, lastCheck >>

RemoveStep ==
    \/ RemoveNoProfiles
    \/ RemoveCancel
    \/ \E path \in ProfilePaths : RemoveFails(path)
    \/ \E path \in ProfilePaths, first \in ProfilePaths \cup { NoPath } : Remove(path, first)

-----------------------------------------------------------------------------
(* auth add (commands/auth/add.ts) *)

\* getFirstAuthSession(dbPath) on the live directory's state database.
LiveSession == IF live.exists THEN live.session ELSE NoSession

\* getProfileByEmail(email): a listed profile whose directory name is the e-mail.
ProfileByEmailExists(profs, email) ==
    \E p \in ListProfiles(profs) : Basename(p) = email

\* getProfileByEmail(email): the path of that profile, or NoPath for null.
GetProfileByEmail(profs, email) ==
    IF ProfileByEmailExists(profs, email)
    THEN CHOOSE p \in ListProfiles(profs) : Basename(p) = email
    ELSE NoPath

\* "Ready to continue?" is declined: exit(0).
AddCancel ==
    /\ Begin("add")
    /\ Exit("cancelled")
    /\ lastSet' = NoSet
    /\ UNCHANGED << detail, profiles, live, ptr, appRunning, selectedPath, session,
                    baseline, attempts, lastCheck >>

\* openAntigravity throws (the application is not installed): exit(1).
AddOpenFails ==
    /\ Begin("add")
    /\ Exit("failed")
    /\ lastSet' = NoSet
    /\ UNCHANGED << detail, profiles, live, ptr, appRunning, selectedPath, session,
                    baseline, attempts, lastCheck >>

\* The application is opened and watchForAuth starts: it records the session
\* the state database holds now.
AddOpen ==
    /\ Begin("add")
    /\ appRunning' = TRUE
    /\ baseline' = LiveSession
    /\ pc' = "add_wait"
    /\ lastSet' = NoSet
    /\ UNCHANGED << detail, profiles, live, ptr, selectedPath, session, attempts,
                    lastCheck, outcome >>

\* checkForAuth (interval or file watcher): a session that is new with respect
\* to the recorded one resolves the watch.
AddAuto ==
    /\ pc = "add_wait"
    /\ LiveSession # NoSession
    /\ baseline = NoSession \/ LiveSession # baseline
    /\ session' = LiveSession
    /\ pc' = "add_save"
    /\ lastSet' = NoSet
    /\ UNCHANGED << detail, profiles, live, ptr, appRunning, cmd, selectedPath, baseline,
                    attempts, lastCheck, outcome, pre >>

\* Enter is pressed: any session the state database holds is taken; with none
\* the loop starts the next watchForAuth.
AddManual ==
    /\ pc = "add_wait"
    /\ IF LiveSession # NoSession
       THEN /\ session' = LiveSession
            /\ pc' = "add_save"
            /\ UNCHANGED baseline
       ELSE /\ baseline' = LiveSession
            /\ UNCHANGED << session, pc >>
    /\ lastSet' = NoSet
    /\ UNCHANGED << detail, profiles, live, ptr, appRunning, cmd, selectedPath, attempts,
                    lastCheck, outcome, pre >>

\* The watch times out: the race rejects and the command exits with 1.
AddTimeout ==
    /\ pc = "add_wait"
    /\ Exit("failed")
    /\ lastSet' = NoSet
    /\ UNCHANGED << detail, profiles, live, ptr, appRunning, cmd, selectedPath, session,
                    baseline, attempts, lastCheck, pre >>

\* "Replace it?" is declined for an existing profile: exit(0).
AddNoReplace ==
    /\ pc = "add_save"
    /\ ProfileByEmailExists(profiles, session)
    /\ Exit("cancelled")
    /\ lastSet' = NoSet
    /\ UNCHANGED << detail, profiles, live, ptr, appRunning, cmd, selectedPath, session,
                    baseline, attempts, lastCheck, pre >>

\* What a cpSync that throws leaves at the destination, which was removed
\* before the copy: nothing when the source is missing, else nothing or a
\* directory the copy has only begun to fill.
FailedCopies(liveDir) ==
    IF liveDir.exists THEN { Absent, Tree(NoSession, {}) } ELSE { Absent }

\* copyDefaultProfileToStorage throws (the live directory is missing, or cpOk
\* is false): the old profile directory is already removed; exit(1).
AddCopyFails(cpOk, left) ==
    /\ pc = "add_save"
    /\ ~live.exists \/ ~cpOk
    /\ left \in FailedCopies(live)
    /\ profiles' = [ profiles EXCEPT ![SafeEmail(session)] = left ]
    /\ Exit("failed")
    /\ lastSet' = NoSet
    /\ UNCHANGED << detail, live, ptr, appRunning, cmd, selectedPath, session, baseline,
                    attempts, lastCheck, pre >>

\* The live directory is captured and addProfileAndSetActive makes it active
\* (the result of setActiveProfile is not looked at).
AddSave ==
    /\ pc = "add_save"
    /\ live.exists
    /\ LET stored == CopyDefaultProfileToStorage(profiles, live, session)
           r == SetActiveProfile(ptr, stored, ProfilePath(SafeEmail(session)))
       IN  /\ profiles' = stored
           /\ ptr' = r.ptr
           /\ lastSet' = [ path |-> ProfilePath(SafeEmail(session)), ok |-> r.ok ]
    /\ Exit("added")
    /\ UNCHANGED << detail, live, appRunning, cmd, selectedPath, session, baseline,
                    attempts, lastCheck, pre >>

AddStep ==
    \/ AddCancel
    \/ AddOpenFails
    \/ AddOpen
    \/ AddAuto
    \/ AddManual
    \/ AddTimeout
    \/ AddNoReplace
    \/ \E cpOk \in BOOLEAN, left \in FailedCopies(live) : AddCopyFails(cpOk, left)
    \/ AddSave

-----------------------------------------------------------------------------
(* The system *)

Environment ==
    \/ AppStart
    \/ AppExit
    \/ \E s \in Emails \cup { NoSession } : AppSignIn(s)

Next ==
    \/ SwitchStep
    \/ RemoveStep
    \/ AddStep
    \/ Environment
    \/ Finish

Spec == Init /\ [][Next]_vars

-----------------------------------------------------------------------------
(* isAntigravityRunning in detail (utils/antigravity-launcher.ts) *)

\* The number of calls followed.
MaxCalls == 2

\* Any platform, the application running or not, no command in progress.
LauncherInit ==
    /\ profiles = [ n \in ProfileNames |-> Absent ]
    /\ live = Absent
    /\ ptr = NoEntry
    /\ appRunning \in BOOLEAN
    /\ pc = "idle"
    /\ cmd = "none"
    /\ selectedPath = NoPath
    /\ session = NoSession
    /\ baseline = NoSession
    /\ attempts = 0
    /\ lastCheck = "none"
    /\ lastSet = NoSet
    /\ outcome = "none"
    /\ pre = NoPre
    /\ os \in Platforms
    /\ calls = << >>
    /\ watchers = << >>
    /\ now = 0
    /\ UnitsIdle

\* One call of isAntigravityRunning(): the command ends as `exec`.
LauncherCheck(exec) ==
    /\ Len(calls) < MaxCalls
    /\ exec \in ExecOutcomes(os, appRunning)
    /\ calls' = Append(calls, [ exec |-> exec, ret |-> IsAntigravityRunningOn(os, exec) ])
    /\ UNCHANGED << profiles, live, ptr, appRunning, pc, cmd, selectedPath, session,
                    baseline, attempts, lastCheck, lastSet, outcome, pre, os,
                    watchers, now, units >>

\* The application starts or exits between the calls.
LauncherAppStart ==
    /\ ~appRunning
    /\ appRunning' = TRUE
    /\ UNCHANGED << profiles, live, ptr, pc, cmd, selectedPath, session, baseline,
                    attempts, lastCheck, lastSet, outcome, pre, detail >>

LauncherAppExit ==
    /\ appRunning
    /\ appRunning' = FALSE
    /\ UNCHANGED << profiles, live, ptr, pc, cmd, selectedPath, session, baseline,
                    attempts, lastCheck, lastSet, outcome, pre, detail >>

LauncherNext ==
    \/ \E exec \in { NotExecuted, Rejected } \cup
                    UNION { ExecOutcomes(p, r) : p \in Platforms, r \in BOOLEAN } :
          LauncherCheck(exec)
    \/ LauncherAppStart
    \/ LauncherAppExit

LauncherSpec == LauncherInit /\ [][LauncherNext]_vars

-----------------------------------------------------------------------------
(* The wait for a sign-in in detail (watchForAuth, and the loop of add.ts) *)

timeoutMs == 300000

checkIntervalMs == 2000

\* Time advances in steps, this many to one timeout.
StepsPerTimeout == 3

StepMs == timeoutMs \div StepsPerTimeout

\* The number of manual checks that find no session, each starting a watcher.
MaxManual == 1

\* A watchForAuth call that has just captured initialAuthState.
NewWatcher(initialAuthState, t) ==
    [ baseline |-> initialAuthState, started |-> t, status |-> "watching",
      result |-> NoSession ]

\* isNewLogin of checkForAuth
IsNewLogin(initialAuthState, email) ==
    initialAuthState = NoSession \/ email # initialAuthState

\* Variant: the session found is not compared with initialAuthState.
CheckForAuth_AnySession(w, liveDir) ==
    IF w.status # "watching" \/ ~liveDir.exists \/ liveDir.session = NoSession
    THEN w
    ELSE [ w EXCEPT !.status = "resolved", !.result = liveDir.session ]

\* checkForAuth() of watcher w: a new login resolves its promise; after
\* cleanup() its timers and its file watcher are gone.
CheckForAuth(w, liveDir) ==
    IF w.status # "watching" \/ ~liveDir.exists \/ liveDir.session = NoSession
    THEN w
    ELSE IF IsNewLogin(w.baseline, liveDir.session)
    THEN [ w EXCEPT !.status = "resolved", !.result = liveDir.session ]
    ELSE w

\* The timeout callback of watcher w at time t.
TimeOut(w, t) ==
    IF w.status = "watching" /\ t >= w.started + timeoutMs
    THEN [ w EXCEPT !.status = "rejected" ]
    ELSE w

\* The promise the loop races against the Enter key: that of its latest call.
Current(ws) == ws[Len(ws)]

\* The loop awaiting the race: the current watcher's result is taken, its
\* rejection ends the command with exit status 1.
Settle(ws) ==
    IF Current(ws).status = "resolved"
    THEN /\ session' = Current(ws).result
         /\ pc' = "add_save"
         /\ UNCHANGED outcome
    ELSE IF Current(ws).status = "rejected"
    THEN /\ Exit("failed")
         /\ UNCHANGED session
    ELSE UNCHANGED << session, pc, outcome >>

\* The application is open and the first watchForAuth has been called.
WatchInit ==
    /\ profiles = [ n \in ProfileNames |-> Absent ]
    /\ live \in { Absent } \cup { AppTree(s) : s \in Emails \cup { NoSession } }
    /\ ptr = NoEntry
    /\ appRunning = TRUE
    /\ pc = "add_wait"
    /\ cmd = "add"
    /\ selectedPath = NoPath
    /\ session = NoSession
    /\ baseline = NoSession
    /\ attempts = 0
    /\ lastCheck = "none"
    /\ lastSet = NoSet
    /\ outcome = "none"
    /\ pre = Snapshot
    /\ os = "darwin"
    /\ calls = << >>
    /\ watchers = << NewWatcher(LiveSession, 0) >>
    /\ now = 0
    /\ UnitsIdle

\* One step of time: every watcher's interval fires at least once, then the
\* timeouts that are due.
WatchTick ==
    /\ pc = "add_wait"
    /\ StepMs >= checkIntervalMs
    /\ now' = now + StepMs
    /\ watchers' = [ i \in DOMAIN watchers |->
                        TimeOut(CheckForAuth(watchers[i], live), now') ]
    /\ Settle(watchers')
    /\ UNCHANGED << profiles, live, ptr, appRunning, cmd, selectedPath, baseline,
                    attempts, lastCheck, lastSet, pre, os, calls, units >>

\* The application writes its state database: the user signs in as s, or signs
\* out. With `notified` the file watchers call checkForAuth at once.
WatchSignIn(s, notified) ==
    /\ pc \in { "add_wait", "add_rewatch" }
    /\ s # LiveSession
    /\ notified => pc = "add_wait"
    /\ live' = AppTree(s)
    /\ IF notified
       THEN /\ watchers' = [ i \in DOMAIN watchers |-> CheckForAuth(watchers[i], live') ]
            /\ Settle(watchers')
       ELSE UNCHANGED << watchers, session, pc, outcome >>
    /\ UNCHANGED << profiles, ptr, appRunning, cmd, selectedPath, baseline,
                    attempts, lastCheck, lastSet, pre, os, calls, now, units >>

\* Enter is pressed: the manual check reads the state database.
WatchEnter ==
    /\ pc = "add_wait"
    /\ IF LiveSession # NoSession
       THEN /\ session' = LiveSession
            /\ pc' = "add_save"
       ELSE /\ Len(watchers) <= MaxManual
            /\ pc' = "add_rewatch"
            /\ UNCHANGED session
    /\ UNCHANGED << profiles, live, ptr, appRunning, cmd, selectedPath, baseline,
                    attempts, lastCheck, lastSet, outcome, pre, detail >>

\* The loop goes round: the next watchForAuth reads the state database for its
\* initialAuthState; the earlier calls keep their timers.
WatchAgain ==
    /\ pc = "add_rewatch"
    /\ watchers' = Append(watchers, NewWatcher(LiveSession, now))
    /\ pc' = "add_wait"
    /\ UNCHANGED << profiles, live, ptr, appRunning, cmd, selectedPath, session,
                    baseline, attempts, lastCheck, lastSet, outcome, pre, os,
                    calls, now, units >>

WatchNext ==
    \/ WatchTick
    \/ \E s \in Emails \cup { NoSession }, notified \in BOOLEAN : WatchSignIn(s, notified)
    \/ WatchEnter
    \/ WatchAgain

WatchSpec == WatchInit /\ [][WatchNext]_vars

-----------------------------------------------------------------------------
(* The store's functions one call at a time (profile-manager.ts) *)

\* The variables of the commands, which these calls leave alone.
command == << appRunning, pc, cmd, selectedPath, session, baseline, attempts,
             lastCheck, lastSet, outcome >>

CommandIdle ==
    /\ appRunning = FALSE
    /\ pc = "idle"
    /\ cmd = "none"
    /\ selectedPath = NoPath
    /\ session = NoSession
    /\ baseline = NoSession
    /\ attempts = 0
    /\ lastCheck = "none"
    /\ lastSet = NoSet
    /\ outcome = "none"

\* E-mails, among them two that copyDefaultProfileToStorage gives one name.
Identities == Emails \cup { << "c", "_" >> }

\* Error codes of a failing rmSync or cpSync, and the error thrown: its message
\* starts with the code.
ErrorCodes == { "ENOTEMPTY", "EBUSY", "EPERM", "EACCES", "EIO" }

FsError(code) ==
    [ name |-> "Error", message |-> << code, ":", "rmdir", "Antigravity" >> ]

NoError == [ name |-> "none", message |-> << >> ]

\* The message of AntigravityRunningError as restoreProfileToDefault throws it.
CloseAndRetry ==
    << "Cannot", "switch", "profile", "while", "Antigravity", "is", "running.",
       "Please", "close", "Antigravity", "and", "try", "again." >>

\* Variant: EPERM is not taken for a lock.
IsLockError_NoEperm(error) ==
    \/ Includes(error.message, "ENOTEMPTY")
    \/ Includes(error.message, "EBUSY")

\* The test in the catch of restoreProfileToDefault.
IsLockError(error) ==
    \/ Includes(error.message, "ENOTEMPTY")
    \/ Includes(error.message, "EBUSY")
    \/ Includes(error.message, "EPERM")

\* What that catch throws for the error of rmSync.
RestoreThrows(error) ==
    IF IsLockError(error)
    THEN [ name |-> "AntigravityRunningError", message |-> CloseAndRetry ]
    ELSE error

\* Any store, live directory and pointer entry the commands can leave: each
\* profile directory holds a session captured under its name; the pointer may
\* dangle.
StoreInit ==
    /\ profiles \in [ ProfileNames -> { Absent } \cup
                          { Tree(s, RegularEntries) : s \in Identities } ]
    /\ \A n \in ProfileNames : profiles[n].exists => SafeEmail(profiles[n].session) = n
    /\ live \in { Absent } \cup
                { Tree(s, es) : s \in Identities \cup { NoSession }, es \in { EntryNames, {} } }
    /\ ptr \in { NoEntry, OtherEntry } \cup { Symlink(q) : q \in ProfilePaths }
    /\ CommandIdle
    /\ pre = Snapshot
    /\ os = "darwin"
    /\ calls = << >>
    /\ watchers = << >>
    /\ now = 0
    /\ UnitsIdle

\* restoreProfileToDefault(path): rm is the code rmSync fails with, or "none";
\* cp likewise for cpSync.
StoreRestore(path, rm, cp) ==
    /\ unitIn = NoUnit
    /\ unitIn' = [ op |-> "restore", path |-> path, rm |-> rm, cp |-> cp ]
    /\ IF ~PathExists(profiles, path)
       THEN /\ unitOut' = [ op |-> "returned", value |-> FALSE, error |-> NoError ]
            /\ UNCHANGED live
       ELSE IF live.exists /\ rm # "none"
       THEN /\ live' \in PartialTrees(live)
            /\ unitOut' = [ op |-> "threw", value |-> FALSE,
                            error |-> RestoreThrows(FsError(rm)) ]
       ELSE IF cp # "none"
       THEN /\ live' \in PartialTrees(RestoreProfileToDefault(profiles, live, path))
            /\ unitOut' = [ op |-> "threw", value |-> FALSE, error |-> FsError(cp) ]
       ELSE /\ live' = RestoreProfileToDefault(profiles, live, path)
            /\ unitOut' = [ op |-> "returned", value |-> TRUE, error |-> NoError ]
    /\ UNCHANGED << profiles, ptr, command, pre, os, calls, watchers, now, vault >>

\* Variant: removeProfile takes the pointer away with the directory.
StoreRemoveProfile_Clears(path, rmOk) ==
    /\ unitIn = NoUnit
    /\ unitIn' = [ op |-> "remove", path |-> path, rmOk |-> rmOk ]
    /\ profiles' = RemoveProfile(profiles, path)
    /\ ptr' = NoEntry
    /\ unitOut' = [ op |-> "returned", value |-> TRUE, error |-> NoError ]
    /\ UNCHANGED << live, command, pre, os, calls, watchers, now, vault >>

\* removeProfile(path): true when rmSync has removed the directory, false
\* when the path does not exist or rmSync throws (rmOk false), which can leave
\* a part of the directory.
StoreRemoveProfile(path, rmOk) ==
    /\ unitIn = NoUnit
    /\ unitIn' = [ op |-> "remove", path |-> path, rmOk |-> rmOk ]
    /\ IF ~PathExists(profiles, path)
       THEN /\ unitOut' = [ op |-> "returned", value |-> FALSE, error |-> NoError ]
            /\ UNCHANGED profiles
       ELSE IF ~rmOk
       THEN /\ profiles' \in { [ profiles EXCEPT ![Basename(path)] = t ] :
                                  t \in PartialTrees(profiles[Basename(path)]) }
            /\ unitOut' = [ op |-> "returned", value |-> FALSE, error |-> NoError ]
       ELSE /\ profiles' = RemoveProfile(profiles, path)
            /\ unitOut' = [ op |-> "returned", value |-> TRUE, error |-> NoError ]
    /\ UNCHANGED << live, ptr, command, pre, os, calls, watchers, now, vault >>

\* copyDefaultProfileToStorage(email) for the session the live directory
\* holds; cp is the code cpSync fails with, or "none".
StoreCapture(email, cp, left) ==
    /\ unitIn = NoUnit
    /\ live.exists
    /\ email = live.session
    /\ email # NoSession
    /\ unitIn' = [ op |-> "capture", email |-> email, cp |-> cp ]
    /\ IF cp # "none"
       THEN /\ left \in FailedCopies(live)
            /\ profiles' = [ profiles EXCEPT ![SafeEmail(email)] = left ]
            /\ unitOut' = [ op |-> "threw", value |-> FALSE, error |-> FsError(cp) ]
       ELSE /\ left = Absent
            /\ profiles' = CopyDefaultProfileToStorage(profiles, live, email)
            /\ unitOut' = [ op |-> "returned", value |-> TRUE, error |-> NoError ]
    /\ UNCHANGED << live, ptr, command, pre, os, calls, watchers, now, vault >>

StoreNext ==
    \/ \E path \in ProfilePaths, rm, cp \in ErrorCodes \cup { "none" } :
          StoreRestore(path, rm, cp)
    \/ \E path \in ProfilePaths, rmOk \in BOOLEAN : StoreRemoveProfile(path, rmOk)
    \/ \E email \in Identities, cp \in ErrorCodes \cup { "none" },
          left \in { Absent, Tree(NoSession, {}) } : StoreCapture(email, cp, left)

StoreSpec == StoreInit /\ [][StoreNext]_vars

-----------------------------------------------------------------------------
(* getProfileSize (profile-manager.ts) *)

\* The most entries a directory holds.
MaxEntries == 2

FileSizes == { 1, 2 }

\* Directory entries: regular files with a size, entries that are neither file
\* nor directory (symlinks, sockets), and directories, which readdirSync can
\* read or not.
File(n) == [ kind |-> "file", size |-> n, readable |-> TRUE, entries |-> << >> ]
OtherDirent == [ kind |-> "other", size |-> 0, readable |-> TRUE, entries |-> << >> ]
Dir(r, es) == [ kind |-> "dir", size |-> 0, readable |-> r, entries |-> es ]

SeqsUpTo(S, n) == UNION { [ 1..k -> S ] : k \in 0..n }

\* Directories of files, and profile directories holding files and those.
LeafDirs ==
    { Dir(r, es) : r \in BOOLEAN, es \in SeqsUpTo({ File(n) : n \in FileSizes }, MaxEntries) }

ProfileDirs ==
    { Dir(r, es) : r \in BOOLEAN,
                   es \in SeqsUpTo({ File(n) : n \in FileSizes } \cup { OtherDirent } \cup LeafDirs,
                                   MaxEntries) }

\* calculateSize(dirPath): what it adds to totalSize. readdirSync of an
\* unreadable directory throws inside the try, and the catch ignores it.
RECURSIVE CalculateSize(_)
CalculateSize(dir) ==
    IF ~dir.readable THEN 0
    ELSE LET RECURSIVE Loop(_)
             Loop(i) ==
                 IF i > Len(dir.entries) THEN 0
                 ELSE LET entry == dir.entries[i]
                      IN  (IF entry.kind = "dir" THEN CalculateSize(entry)
                           ELSE IF entry.kind = "file" THEN entry.size
                           ELSE 0) + Loop(i + 1)
         IN  Loop(1)

\* Whether readdirSync throws anywhere in the walk.
RECURSIVE ReaddirThrows(_)
ReaddirThrows(dir) ==
    \/ ~dir.readable
    \/ \E i \in DOMAIN dir.entries :
          dir.entries[i].kind = "dir" /\ ReaddirThrows(dir.entries[i])

\* Variant: calculateSize has no try/catch, the error of readdirSync leaves
\* getProfileSize.
GetProfileSize_NoCatch(dir) ==
    IF ReaddirThrows(dir)
    THEN [ op |-> "threw", value |-> 0 ]
    ELSE [ op |-> "returned", value |-> CalculateSize(dir) ]

\* getProfileSize(profilePath)
GetProfileSize(dir) == [ op |-> "returned", value |-> CalculateSize(dir) ]

SizeInit ==
    /\ profiles = [ n \in ProfileNames |-> Absent ]
    /\ live = Absent
    /\ ptr = NoEntry
    /\ CommandIdle
    /\ pre = NoPre
    /\ os = "darwin"
    /\ calls = << >>
    /\ watchers = << >>
    /\ now = 0
    /\ unitIn \in { [ op |-> "size", dir |-> d ] : d \in ProfileDirs }
    /\ unitOut = NoUnit
    /\ vault = NoVault

SizeCall ==
    /\ unitOut = NoUnit
    /\ unitOut' = GetProfileSize(unitIn.dir)
    /\ UNCHANGED << profiles, live, ptr, command, pre, os, calls, watchers, now,
                    unitIn, vault >>

SizeNext == SizeCall

SizeSpec == SizeInit /\ [][SizeNext]_vars

-----------------------------------------------------------------------------
(* The sessions in the state database (sqlite-reader.ts) *)

\* The longest JSON array stored under a key.
MaxItems == 1

\* A property that a JSON object does not have.
Missing == << >>

\* The values of ItemTable: text that is not JSON, an object, an array of
\* objects. `label` and `id` are account.label and account.id.
JsonObjects ==
    [ json : { "object" }, email : { Missing, <<"a">> },
      label : { Missing, <<"b">> }, id : { Missing, <<"id-b">> } ]

JsonValues ==
    { [ json |-> "invalid" ] } \cup JsonObjects
        \cup { [ json |-> "array", items |-> q ] : q \in SeqsUpTo(JsonObjects, MaxItems) }

\* The keys of ItemTable, word by word.
DedicatedKey == << "antigravityAuthStatus" >>

GenericKey == << "vscode", "google.auth" >>

OtherKey == << "workbench", "auth" >>

NoRow == [ json |-> "norow" ]

\* The WHERE clause of the query.
Selected(key) ==
    \/ key = DedicatedKey
    \/ Includes(key, "authentication.sessions")
    \/ Includes(key, "google.auth")
    \/ Includes(key, "auth.sessions")

\* The rows db.prepare(query).all() may return: the selected rows of the
\* table, in an order the query does not fix.
QueryResults(table) ==
    LET keys == { k \in DOMAIN table : table[k] # NoRow /\ Selected(k) }
    IN  { [ i \in DOMAIN q |-> [ key |-> q[i], value |-> table[q[i]] ] ] :
            q \in { p \in [ 1..Cardinality(keys) -> keys ] :
                      \A i, j \in DOMAIN p : p[i] = p[j] => i = j } }

\* parseAntigravityAuth(jsonValue)
ParseAntigravityAuth(v) ==
    IF v.json = "object" /\ v.email # Missing
    THEN [ email |-> v.email, accountId |-> v.email ]
    ELSE NoSession

\* extractSessionData(item)
ExtractSessionData(item) ==
    IF item.label # Missing /\ item.id # Missing
    THEN [ email |-> item.label, accountId |-> item.id ]
    ELSE NoSession

\* parseAuthSession(jsonValue); no session for null
ParseAuthSession(v) ==
    LET items == IF v.json = "array" THEN v.items
                 ELSE IF v.json = "object" THEN << v >>
                 ELSE << >>
    IN  SelectSeq([ i \in DOMAIN items |-> ExtractSessionData(items[i]) ],
                  LAMBDA s : s # NoSession)

\* The loop of readAuthSessions over the rows, in the rows' order: a value
\* that does not parse or names no account adds nothing.
RECURSIVE SessionsOf(_)
SessionsOf(rows) ==
    IF rows = << >> THEN << >>
    ELSE LET row == Head(rows)
             rest == SessionsOf(Tail(rows))
         IN  IF row.key = DedicatedKey
             THEN IF ParseAntigravityAuth(row.value) # NoSession
                  THEN << ParseAntigravityAuth(row.value) >> \o rest
                  ELSE rest
             ELSE ParseAuthSession(row.value) \o rest

\* Variant: the parsers do not catch, so text that is not JSON ends the read
\* in the catch of readAuthSessions.
ReadAuthSessions_AllOrNothing(dbOk, rows) ==
    IF ~dbOk \/ \E i \in DOMAIN rows : rows[i].value.json = "invalid"
    THEN << >>
    ELSE SessionsOf(rows)

\* readAuthSessions(dbPath): the sessions of the rows; none when the database
\* does not exist, cannot be opened, is locked or has no ItemTable (~dbOk:
\* the constructor or the query throws into the catch).
ReadAuthSessions(dbOk, rows) ==
    IF ~dbOk THEN << >> ELSE SessionsOf(rows)

\* getFirstAuthSession(dbPath)
GetFirstAuthSession(dbOk, rows) ==
    LET sessions == ReadAuthSessions(dbOk, rows)
    IN  IF sessions = << >> THEN NoSession ELSE sessions[1]

\* A state database, readable or not, before it is read.
SessionInit ==
    /\ profiles = [ n \in ProfileNames |-> Absent ]
    /\ live = Absent
    /\ ptr = NoEntry
    /\ CommandIdle
    /\ pre = NoPre
    /\ os = "darwin"
    /\ calls = << >>
    /\ watchers = << >>
    /\ now = 0
    /\ \E dbOk \in BOOLEAN, dedicated, generic \in JsonValues \cup { NoRow },
          other \in { NoRow, [ json |-> "object", email |-> Missing,
                               label |-> <<"b">>, id |-> <<"id-b">> ] } :
          unitIn = [ op |-> "getFirstAuthSession", dbOk |-> dbOk,
                     table |-> (DedicatedKey :> dedicated) @@ (GenericKey :> generic)
                                   @@ (OtherKey :> other) ]
    /\ unitOut = NoUnit
    /\ vault = NoVault

SessionRead(rows) ==
    /\ unitOut = NoUnit
    /\ unitOut' = [ op |-> "returned", rows |-> rows,
                    sessions |-> ReadAuthSessions(unitIn.dbOk, rows),
                    value |-> GetFirstAuthSession(unitIn.dbOk, rows) ]
    /\ UNCHANGED << profiles, live, ptr, command, pre, os, calls, watchers, now,
                    unitIn, vault >>

SessionNext == \E rows \in QueryResults(unitIn.table) : SessionRead(rows)

SessionSpec == SessionInit /\ [][SessionNext]_vars

-----------------------------------------------------------------------------
(* The refresh tokens (token-storage.ts) *)

\* The refreshToken a tokens.json entry carries when the keychain has the token.
KeychainMarker == << "[keychain]" >>

\* null, and an account without an entry or without a password.
NoToken == << >>

Tokens == { << "s1" >>, << "s2" >>, KeychainMarker }

VaultEmails == { << "a" >>, << "b" >> }

\* loadKeytar(): the import is attempted once in a process.
LoadKeytar(keytar, importOk) ==
    IF keytar = "unloaded"
    THEN IF importOk THEN "loaded" ELSE "failed"
    ELSE keytar

\* getRefreshToken(email), with whether the keychain it asked answered.
GetRefreshToken(v, email, importOk, getOk) ==
    LET entry == v.file[email]
    IN  IF entry = NoToken THEN [ value |-> NoToken, keychainOk |-> TRUE ]
        ELSE IF entry = KeychainMarker
        THEN IF LoadKeytar(v.keytar, importOk) = "loaded" /\ getOk
             THEN [ value |-> v.keychain[email], keychainOk |-> TRUE ]
             ELSE [ value |-> NoToken, keychainOk |-> FALSE ]
        ELSE [ value |-> entry, keychainOk |-> TRUE ]

\* isTokenInKeychain(email)
IsTokenInKeychain(v, email) == v.file[email] = KeychainMarker

\* A process with no token stored.
VaultInit ==
    /\ profiles = [ n \in ProfileNames |-> Absent ]
    /\ live = Absent
    /\ ptr = NoEntry
    /\ CommandIdle
    /\ pre = NoPre
    /\ os = "darwin"
    /\ calls = << >>
    /\ watchers = << >>
    /\ now = 0
    /\ unitIn = NoUnit
    /\ unitOut = NoUnit
    /\ vault = [ op |-> "vault", keytar |-> "unloaded",
                 keychain |-> [ e \in VaultEmails |-> NoToken ],
                 file |-> [ e \in VaultEmails |-> NoToken ] ]

\* Variant: after a keychain save an entry that tokens.json already has is kept.
VaultSave_KeepsEntry(email, refreshToken, insecure, importOk, findOk, setOk) ==
    LET keytar == IF insecure THEN vault.keytar ELSE LoadKeytar(vault.keytar, importOk)
        useKeychain == ~insecure /\ keytar = "loaded" /\ findOk
    IN  /\ vault' = IF useKeychain /\ setOk
                    THEN [ vault EXCEPT !.keytar = keytar,
                                        !.keychain[email] = refreshToken,
                                        !.file[email] =
                                            IF @ = NoToken THEN KeychainMarker ELSE @ ]
                    ELSE [ vault EXCEPT !.keytar = keytar,
                                        !.file[email] = refreshToken ]
        /\ unitIn' = [ op |-> "save", email |-> email, token |-> refreshToken,
                       keychain |-> useKeychain /\ setOk,
                       before |-> vault.file[email] ]
        /\ unitOut' = NoUnit
        /\ UNCHANGED << profiles, live, ptr, command, pre, os, calls, watchers, now >>

\* saveRefreshToken(email, refreshToken, insecure): findOk and setOk tell
\* whether keytar.findCredentials and keytar.setPassword succeed.
VaultSave(email, refreshToken, insecure, importOk, findOk, setOk) ==
    LET keytar == IF insecure THEN vault.keytar ELSE LoadKeytar(vault.keytar, importOk)
        useKeychain == ~insecure /\ keytar = "loaded" /\ findOk
    IN  /\ vault' = IF useKeychain /\ setOk
                    THEN [ vault EXCEPT !.keytar = keytar,
                                        !.keychain[email] = refreshToken,
                                        !.file[email] = KeychainMarker ]
                    ELSE [ vault EXCEPT !.keytar = keytar,
                                        !.file[email] = refreshToken ]
        /\ unitIn' = [ op |-> "save", email |-> email, token |-> refreshToken,
                       keychain |-> useKeychain /\ setOk,
                       before |-> vault.file[email] ]
        /\ unitOut' = NoUnit
        /\ UNCHANGED << profiles, live, ptr, command, pre, os, calls, watchers, now >>

\* getRefreshToken(email) and hasStoredToken(email)
VaultGet(email, importOk, getOk) ==
    LET got == GetRefreshToken(vault, email, importOk, getOk)
    IN  /\ vault' = IF vault.file[email] = KeychainMarker
                    THEN [ vault EXCEPT !.keytar = LoadKeytar(@, importOk) ]
                    ELSE vault
        /\ unitOut' = [ op |-> "get", email |-> email, value |-> got.value,
                        has |-> got.value # NoToken, keychainOk |-> got.keychainOk ]
        /\ UNCHANGED << profiles, live, ptr, command, pre, os, calls, watchers, now,
                        unitIn >>

\* deleteRefreshToken(email): delOk tells whether keytar.deletePassword succeeds.
VaultDelete(email, importOk, delOk) ==
    LET marked == vault.file[email] = KeychainMarker
        keytar == IF marked THEN LoadKeytar(vault.keytar, importOk) ELSE vault.keytar
    IN  /\ vault' = [ vault EXCEPT
                        !.keytar = keytar,
                        !.keychain[email] =
                            IF marked /\ keytar = "loaded" /\ delOk THEN NoToken ELSE @,
                        !.file[email] = NoToken ]
        /\ unitIn' = [ op |-> "delete", email |-> email,
                       keychainOk |-> ~marked \/ (keytar = "loaded" /\ delOk) ]
        /\ unitOut' = NoUnit
        /\ UNCHANGED << profiles, live, ptr, command, pre, os, calls, watchers, now >>

\* The command ends; the next one runs in a new process.
VaultNewProcess ==
    /\ vault.keytar # "unloaded"
    /\ vault' = [ vault EXCEPT !.keytar = "unloaded" ]
    /\ UNCHANGED << profiles, live, ptr, command, pre, os, calls, watchers, now,
                    unitIn, unitOut >>

VaultNext ==
    \/ \E email \in VaultEmails, refreshToken \in Tokens,
          insecure, importOk, findOk, setOk \in BOOLEAN :
          VaultSave(email, refreshToken, insecure, importOk, findOk, setOk)
    \/ \E email \in VaultEmails, importOk, getOk \in BOOLEAN :
          VaultGet(email, importOk, getOk)
    \/ \E email \in VaultEmails, importOk, delOk \in BOOLEAN :
          VaultDelete(email, importOk, delOk)
    \/ VaultNewProcess

VaultSpec == VaultInit /\ [][VaultNext]_vars

-----------------------------------------------------------------------------
(* One watchForAuth call with its timers (profile-manager.ts) *)

\* The delay of setTimeout(startWatcher, 1000).
startWatcherDelayMs == 1000

\* The timeoutMs a call is given.
Timeouts == { 500, 1000, 3000, 5000 }

\* cleanup(): the file watcher is closed, the interval and the timeout are
\* cleared; the timer of startWatcher has no handle and stays.
Cleanup(w) ==
    [ w EXCEPT !.watcher = FALSE, !.checkInterval = FALSE, !.timeoutId = FALSE ]

\* checkForAuth() of the call, run by its interval or by its file watcher:
\* resolve() changes a promise only while it is pending.
CheckForAuthOf(w, liveDir) ==
    IF ~liveDir.exists THEN w
    ELSE LET read == [ w EXCEPT !.lateRead = @ \/ w.status # "waitingForSignal" ]
         IN  IF liveDir.session # NoSession /\ IsNewLogin(w.initialAuthState, liveDir.session)
             THEN [ Cleanup(read) EXCEPT
                      !.status = IF @ = "waitingForSignal" THEN "detected" ELSE @,
                      !.result = IF w.status = "waitingForSignal"
                                 THEN liveDir.session ELSE @ ]
             ELSE read

\* The time at which the next timer of the call is due; the timeout was set
\* first and goes first when two are due together.
NextDue(w, timeout) ==
    LET due == (IF w.timeoutId THEN { timeout } ELSE {})
                 \cup (IF w.startWatcher THEN { startWatcherDelayMs } ELSE {})
                 \cup (IF w.checkInterval THEN { w.nextCheck } ELSE {})
    IN  CHOOSE t \in due : \A u \in due : t <= u

\* No watchForAuth call yet: the watcher is idle.
TimerInit ==
    /\ profiles = [ n \in ProfileNames |-> Absent ]
    /\ live \in { Absent } \cup { AppTree(s) : s \in Emails \cup { NoSession } }
    /\ ptr = NoEntry
    /\ CommandIdle
    /\ pre = NoPre
    /\ os = "darwin"
    /\ calls = << >>
    /\ watchers = << >>
    /\ now = 0
    /\ UnitsIdle

\* watchForAuth(timeoutMs) up to the promise it returns.
WatchForAuth(timeout) ==
    /\ unitIn = NoUnit
    /\ unitIn' = [ op |-> "watchForAuth", timeoutMs |-> timeout ]
    /\ unitOut' = [ op |-> "promise", status |-> "waitingForSignal",
                    initialAuthState |-> LiveSession, result |-> NoSession,
                    timeoutId |-> TRUE, checkInterval |-> TRUE,
                    nextCheck |-> now + checkIntervalMs, startWatcher |-> TRUE,
                    watcher |-> FALSE, lateRead |-> FALSE ]
    /\ UNCHANGED << profiles, live, ptr, command, pre, os, calls, watchers, now, vault >>

\* The timeout callback: cleanup() and reject().
TimerTimeout ==
    /\ unitIn # NoUnit
    /\ unitOut.timeoutId
    /\ NextDue(unitOut, unitIn.timeoutMs) = unitIn.timeoutMs
    /\ now' = unitIn.timeoutMs
    /\ unitOut' = [ Cleanup(unitOut) EXCEPT
                      !.status = IF @ = "waitingForSignal" THEN "timedOut" ELSE @ ]
    /\ UNCHANGED << profiles, live, ptr, command, pre, os, calls, watchers, unitIn, vault >>

\* The interval callback.
TimerInterval ==
    /\ unitIn # NoUnit
    /\ unitOut.checkInterval
    /\ NextDue(unitOut, unitIn.timeoutMs) = unitOut.nextCheck
    /\ ~(unitOut.timeoutId /\ unitIn.timeoutMs = unitOut.nextCheck)
    /\ now' = unitOut.nextCheck
    /\ unitOut' = CheckForAuthOf([ unitOut EXCEPT !.nextCheck = @ + checkIntervalMs ], live)
    /\ UNCHANGED << profiles, live, ptr, command, pre, os, calls, watchers, unitIn, vault >>

\* startWatcher(), one second after the call.
TimerStartWatcher ==
    /\ unitIn # NoUnit
    /\ unitOut.startWatcher
    /\ NextDue(unitOut, unitIn.timeoutMs) = startWatcherDelayMs
    /\ ~(unitOut.timeoutId /\ unitIn.timeoutMs = startWatcherDelayMs)
    /\ now' = startWatcherDelayMs
    /\ unitOut' = [ unitOut EXCEPT !.startWatcher = FALSE, !.watcher = live.exists ]
    /\ UNCHANGED << profiles, live, ptr, command, pre, os, calls, watchers, unitIn, vault >>

\* The application writes state.vscdb: the user signs in as s or signs out. An
\* open file watcher calls checkForAuth.
StateDbWritten(s) ==
    /\ s # LiveSession
    /\ live' = AppTree(s)
    /\ unitOut' = IF unitIn # NoUnit /\ unitOut.watcher
                  THEN CheckForAuthOf(unitOut, live')
                  ELSE unitOut
    /\ UNCHANGED << profiles, ptr, command, pre, os, calls, watchers, now, unitIn, vault >>

TimerNext ==
    \/ \E timeout \in Timeouts : WatchForAuth(timeout)
    \/ TimerTimeout
    \/ TimerInterval
    \/ TimerStartWatcher
    \/ \E s \in Emails \cup { NoSession } : StateDbWritten(s)

TimerSpec == TimerInit /\ [][TimerNext]_vars

-----------------------------------------------------------------------------
(* The quota displays (commands/auth/list.ts, commands/auth/quota.ts) *)

\* The seconds between two automatic refreshes of the list.
REFRESH_INTERVAL == 30

\* The most fetches followed at once.
MaxPending == 2

\* The most seconds the countdown is followed below zero.
MaxOverdue == 2

\* fetchAndRender() of display d: the list returns at once while it is loading
\* (isLoadingQuotas), the quota monitor sets isLoading and fetches.
FetchAndRender(view, d) ==
    IF view = "list" /\ d.isLoading
    THEN d
    ELSE [ d EXCEPT !.isLoading = TRUE, !.pending = @ + 1 ]

\* A display after its first fetch, which run() awaits before it sets up the
\* key handler and the interval.
QuotaInit ==
    /\ profiles = [ n \in ProfileNames |-> Absent ]
    /\ live = Absent
    /\ ptr = NoEntry
    /\ CommandIdle
    /\ pre = NoPre
    /\ os = "darwin"
    /\ calls = << >>
    /\ watchers = << >>
    /\ now = 0
    /\ unitIn \in { [ op |-> "list", refreshInterval |-> REFRESH_INTERVAL ] }
                    \cup { [ op |-> "quota", refreshInterval |-> i ] : i \in { 10, 30 } }
    /\ unitOut = [ op |-> "display", running |-> TRUE, exited |-> FALSE,
                   countdown |-> unitIn.refreshInterval, isLoading |-> FALSE,
                   pending |-> 0 ]
    /\ vault = NoVault

\* The key r: manual reload.
QuotaReload ==
    /\ ~unitOut.exited
    /\ unitOut.pending < MaxPending
    /\ unitOut' = FetchAndRender(unitIn.op, unitOut)
    /\ UNCHANGED << profiles, live, ptr, command, pre, os, calls, watchers, now,
                    unitIn, vault >>

\* The key q: exit.
QuotaQuit ==
    /\ ~unitOut.exited
    /\ unitOut.running
    /\ unitOut' = [ unitOut EXCEPT !.running = FALSE ]
    /\ UNCHANGED << profiles, live, ptr, command, pre, os, calls, watchers, now,
                    unitIn, vault >>

\* The one-second interval: the countdown, and at zero fetchAndRender().
QuotaTick ==
    /\ ~unitOut.exited
    /\ unitOut.countdown > 0 - MaxOverdue
    /\ unitOut.pending < MaxPending
    /\ unitOut' =
          IF ~unitOut.running
          THEN [ unitOut EXCEPT !.exited = TRUE ]
          ELSE LET counted == [ unitOut EXCEPT !.countdown = @ - 1 ]
               IN  IF counted.countdown <= 0
                   THEN FetchAndRender(unitIn.op, counted)
                   ELSE counted
    /\ UNCHANGED << profiles, live, ptr, command, pre, os, calls, watchers, now,
                    unitIn, vault >>

\* The 100 ms interval that keeps the process alive sees running = false.
QuotaClose ==
    /\ ~unitOut.exited
    /\ ~unitOut.running
    /\ unitOut' = [ unitOut EXCEPT !.exited = TRUE ]
    /\ UNCHANGED << profiles, live, ptr, command, pre, os, calls, watchers, now,
                    unitIn, vault >>

\* A fetch ends. The list's never rejects; the monitor's resets the countdown
\* only when it succeeded.
QuotaFetched(ok) ==
    /\ unitOut.pending > 0
    /\ unitIn.op = "list" => ok
    /\ unitOut' = [ unitOut EXCEPT
                      !.pending = @ - 1,
                      !.isLoading = FALSE,
                      !.countdown = IF ok THEN unitIn.refreshInterval ELSE @ ]
    /\ UNCHANGED << profiles, live, ptr, command, pre, os, calls, watchers, now,
                    unitIn, vault >>

QuotaNext ==
    \/ QuotaReload
    \/ QuotaQuit
    \/ QuotaTick
    \/ QuotaClose
    \/ \E ok \in BOOLEAN : QuotaFetched(ok)

QuotaSpec == QuotaInit /\ [][QuotaNext]_vars

-----------------------------------------------------------------------------
(* Properties *)

\* What getActive() returns in the current state, and in the state the command
\* started from.
Active == GetActiveProfilePath(ptr, profiles)
ActiveBefore == GetActiveProfilePath(pre.ptr, pre.profiles)

SwitchEnded(result) == pc = "done" /\ cmd = "switch" /\ outcome = result
RemoveEnded(result) == pc = "done" /\ cmd = "remove" /\ outcome = result

\* The switch has replaced the live directory without an error.
SwitchReplaced == cmd = "switch" /\ (pc = "sw_launch" \/ outcome = "switched")

\* The remove command has removed the profile that was active.
RemovedActive ==
    /\ RemoveEnded("removed")
    /\ IsActiveProfile(pre.ptr, pre.profiles, selectedPath)

\* C1 (as claimed): a switch whose replacement of the live directory fails
\* (resource busy, I/O error, profile gone) leaves the active pointer as it was
\* before the switch, because the pointer is written only after the replace.
C1_PointerOnlyAfterReplace ==
    (pc = "done" /\ cmd = "switch" /\ outcome \in { "busy", "ioError", "restoreFailed" })
        => ptr = pre.ptr

\* C2: when the application is still reported running after the quit request
\* and all re-polls, the switch ends as a failure and the live directory, the
\* active pointer and every profile directory are as they were before it.
C2_StillRunningChangesNothing ==
    /\ SwitchEnded("stillRunning")
          => /\ live = pre.live
             /\ ptr = pre.ptr
             /\ profiles = pre.profiles
    /\ (cmd = "switch" /\ attempts = maxAttempts /\ lastCheck = "running"
            /\ outcome # "switched")
          => /\ pc = "sw_final" \/ SwitchEnded("stillRunning")
             /\ live = pre.live
             /\ ptr = pre.ptr
             /\ profiles = pre.profiles

\* C2 witness: a switch has failed after maxAttempts re-polls and the final
\* check all reported the application running.
C2_Witness ==
    /\ SwitchEnded("stillRunning")
    /\ attempts = maxAttempts
    /\ Cardinality(ListProfiles(profiles)) >= 2
    /\ live.exists

\* C3: after a switch that met no failure, getActive() is the selected
\* profile, the live directory equals the selected profile's stored tree
\* (nothing of its previous contents is left), and every stored profile
\* directory is as it was.
C3_SwitchResult ==
    SwitchReplaced
        => /\ Active = selectedPath
           /\ live = profiles[Basename(selectedPath)]
           /\ profiles = pre.profiles

\* C3 witness: another profile was active, the application was reported not
\* running at the first check, the live directory held other data (with a
\* socket and a cache), and the switch has replaced it.
C3_Witness ==
    /\ SwitchEnded("switched")
    /\ attempts = 0
    /\ ActiveBefore \in ListProfiles(pre.profiles) \ { selectedPath }
    /\ pre.live.exists
    /\ pre.live.session # profiles[Basename(selectedPath)].session
    /\ "ipc.sock" \in pre.live.entries
    /\ live = profiles[Basename(selectedPath)]

\* C4: within a switch, every step that changes the live directory or the
\* pointer is taken with the most recent isAntigravityRunning() having returned
\* false, and the swap is never entered from a check that returned true.
C4_SwapOnlyAfterNotRunning ==
    /\ [][ (cmd = "switch" /\ (live' # live \/ ptr' # ptr \/ profiles' # profiles))
              => lastCheck = "notRunning" ]_vars
    /\ [][ (pc \notin { "sw_set", "sw_restore" } /\ pc' \in { "sw_set", "sw_restore" })
              => lastCheck' = "notRunning" ]_vars

\* C4 witness: the live directory has been replaced after the quit dialogue
\* and at least one re-poll that reported the application running.
C4_Witness ==
    /\ cmd = "switch"
    /\ pc = "sw_launch"
    /\ attempts > 0
    /\ live # pre.live
    /\ ptr # pre.ptr

\* C5 (as claimed): right after setActive(p) for an existing profile path p the
\* call has succeeded and getActive() returns p, and a second setActive(p)
\* succeeds and leaves getActive() at p.
C5_SetThenGet ==
    (lastSet.path # NoPath /\ PathExists(profiles, lastSet.path))
        => /\ lastSet.ok
           /\ Active = lastSet.path
           /\ LET again == SetActiveProfile(ptr, profiles, lastSet.path)
              IN  /\ again.ok
                  /\ GetActiveProfilePath(again.ptr, profiles) = lastSet.path

\* C6 (as claimed): whatever was at the pointer location before (nothing, a
\* valid link, a dangling link, a file or directory), after
\* setActive(profilePath) the pointer is a symlink to profilePath and the call
\* reported success.
C6_SetReplacesAnyEntry ==
    lastSet.path # NoPath
        => /\ lastSet.ok
           /\ ptr = Symlink(lastSet.path)

\* C7 (as claimed): right after setActive(p), isActive(p) is true and
\* isActive(q) is false for every other stored profile q.
C7_ExactlyTheSetProfileIsActive ==
    (lastSet.path # NoPath /\ PathExists(profiles, lastSet.path))
        => /\ IsActiveProfile(ptr, profiles, lastSet.path)
           /\ \A q \in ListProfiles(profiles) \ { lastSet.path } :
                  ~IsActiveProfile(ptr, profiles, q)

\* C8 (as claimed): when remove deletes the active profile and another profile
\* remains, getActive() afterwards is a remaining profile and isActive holds
\* for exactly that one.
C8_RemoveActiveRepoints ==
    (RemovedActive /\ ListProfiles(profiles) # {})
        => /\ Active \in ListProfiles(profiles)
           /\ Cardinality({ q \in ListProfiles(profiles) :
                              IsActiveProfile(ptr, profiles, q) }) = 1

\* C9: after remove has deleted the only profile, which was the active one,
\* and called clear(), getActive() returns none.
C9_RemoveLastClears ==
    (RemovedActive /\ ListProfiles(profiles) = {})
        => Active = NoPath

\* C9 witness: the only profile, the pointer's target, has been removed.
C9_Witness ==
    /\ RemovedActive
    /\ Cardinality(ListProfiles(pre.profiles)) = 1
    /\ ActiveBefore = selectedPath
    /\ ListProfiles(profiles) = {}

\* C10: in every reachable state getActive() is none or the path of a stored
\* profile; a dangling link and a non-symlink entry are reported as none.
C10_ActiveIsNoneOrStored ==
    /\ Active = NoPath \/ Active \in ListProfiles(profiles)
    /\ (ptr.kind = "symlink" /\ ~PathExists(profiles, ptr.target)) => Active = NoPath
    /\ ptr.kind = "file" => Active = NoPath

\* C10 witness: the pointer is a link to a profile that has been deleted while
\* other profiles are stored.
C10_Witness ==
    /\ ptr.kind = "symlink"
    /\ ~PathExists(profiles, ptr.target)
    /\ ListProfiles(profiles) # {}
    /\ pc = "idle"

AddEnded(result) == pc = "done" /\ cmd = "add" /\ outcome = result

\* The directory the add command captures the detected session to.
CapturedPath == ProfilePath(SafeEmail(session))

\* C11 (as claimed): after add has captured the live directory under the
\* detected identity, whatever characters the identity contains,
\* getProfileByEmail of that identity returns the captured profile and not null.
C11_CaptureThenGetByIdentity ==
    AddEnded("added") => GetProfileByEmail(profiles, session) = CapturedPath

C13_FailedCaptureKeepsStore ==
    AddEnded("failed") => profiles = pre.profiles

\* C18 (as claimed): an add that reports success leaves the captured profile
\* active, whatever state the command started from.
C18_AddedIsActive ==
    AddEnded("added") => Active = CapturedPath

\* The live directory holds the data of the profile getActiveProfilePath()
\* returns, if it returns one: the same session and every stored entry.
Mirrored(p, profs, liveDir) ==
    LET active == GetActiveProfilePath(p, profs)
    IN  active # NoPath =>
            /\ liveDir.exists
            /\ liveDir.session = profs[Basename(active)].session
            /\ profs[Basename(active)].entries \subseteq liveDir.entries

\* C19 (as claimed, for the steps of switch and remove): a switch or remove
\* command, failing partway or not, that starts where the active profile is the
\* one mirrored into the live directory ends where the profile getActive()
\* returns is the one the live directory holds.
C19_ActiveIsMirrored ==
    (/\ pc = "done"
     /\ cmd \in { "switch", "remove" }
     /\ Mirrored(pre.ptr, pre.profiles, pre.live))
        => Mirrored(ptr, profiles, live)

\* C20: isAntigravityRunning() never throws: whether the enumeration finds a
\* match, finds none, fails as a command, or the platform is not supported, it
\* returns a boolean, and a failed enumeration or an unsupported platform gives
\* false.
C20_IsRunningNeverThrows ==
    \A i \in DOMAIN calls :
        /\ ~calls[i].ret.threw
        /\ calls[i].ret.value \in BOOLEAN
        /\ calls[i].exec.kind = "rejected" => calls[i].ret.value = FALSE
        /\ os \notin { "darwin", "linux", "win32" } => calls[i].ret.value = FALSE

\* The command has failed in one call and has found the application in another.
C20_Witness ==
    /\ \E i \in DOMAIN calls : calls[i].exec.kind = "rejected" /\ ~calls[i].ret.value
    /\ \E i \in DOMAIN calls : calls[i].exec.kind = "resolved" /\ calls[i].ret.value

Waiting == pc \in { "add_wait", "add_rewatch" }

C15_ManualCheckUsesBaseline ==
    pc = "add_save" =>
        /\ session # NoSession
        /\ IsNewLogin(Current(watchers).baseline, session)

\* C16 (as claimed): the wait lasts less than one timeout from its start,
\* however many manual checks found no session.
C16_OneOverallTimeout ==
    Waiting => now < watchers[1].started + timeoutMs

\* C17 (as claimed): no watcher's result is discarded: while the loop is still
\* waiting, no watcher has resolved.
C17_ObservedSignInIsUsed ==
    Waiting => \A i \in DOMAIN watchers : watchers[i].status # "resolved"

\* C21: after the quit request the switch asks isAntigravityRunning() again in
\* a bounded loop: every round that finds the application running counts, the
\* loop is left on the first "not running" answer or after maxAttempts rounds,
\* one more check follows, and "still running" at that check ends the switch.
\* (A step of the command is one that leaves the process list alone.)
C21_BoundedQuitLoop ==
    /\ [] ( /\ attempts <= maxAttempts
            /\ pc = "sw_loop" => attempts < maxAttempts )
    /\ [][ (pc = "sw_loop" /\ appRunning' = appRunning) =>
               IF lastCheck' = "notRunning"
               THEN pc' = "sw_final" /\ attempts' = attempts
               ELSE /\ attempts' = attempts + 1
                    /\ pc' = IF attempts' < maxAttempts THEN "sw_loop" ELSE "sw_final" ]_vars
    /\ [][ (pc = "sw_final" /\ appRunning' = appRunning) =>
               IF lastCheck' = "running"
               THEN pc' = "done" /\ outcome' = "stillRunning"
               ELSE pc' = "sw_set" ]_vars

\* All the rounds have found the application running and the final check is due.
C21_Witness == pc = "sw_final" /\ attempts = maxAttempts

\* C26 (as claimed): once the remove command has called removeActiveSymlink(),
\* after the last profile (the active one) was deleted, no entry is left at the
\* pointer location.
C26_ClearRemovesPointer ==
    (RemovedActive /\ ListProfiles(profiles) = {}) => ptr = NoEntry

\* C28: a switch command, however it ends, leaves every profile directory
\* with the contents it had when the command started.
C28_SwitchNeverWritesProfiles ==
    cmd = "switch" => profiles = pre.profiles

\* A switch has replaced the live directory, and another has failed in the
\* replacement, with the selected profile still as it was.
C28_Witness ==
    /\ pc = "done"
    /\ cmd = "switch"
    /\ outcome \in { "switched", "busy", "ioError" }
    /\ PathExists(profiles, selectedPath)
    /\ live # pre.live

\* C22: when rmSync of the live directory fails in restoreProfileToDefault
\* with ENOTEMPTY, EBUSY or EPERM the call throws AntigravityRunningError with
\* the close-and-retry message; with any other code it throws the error of
\* rmSync itself; either way the removal is not tried again and nothing is
\* copied: the live directory holds what the failed removal left of it.
C22_LockedRemovalIsResourceBusy ==
    (/\ unitIn.op = "restore"
     /\ PathExists(pre.profiles, unitIn.path)
     /\ pre.live.exists
     /\ unitIn.rm # "none")
        => /\ unitOut.op = "threw"
           /\ IF unitIn.rm \in { "ENOTEMPTY", "EBUSY", "EPERM" }
              THEN /\ unitOut.error.name = "AntigravityRunningError"
                   /\ unitOut.error.message = CloseAndRetry
              ELSE unitOut.error = FsError(unitIn.rm)
           /\ live.exists
           /\ live.session \in { pre.live.session, NoSession }
           /\ live.entries \subseteq pre.live.entries

\* The removal has failed with EPERM where the profile to restore holds
\* another session than the live directory.
C22_Witness ==
    /\ unitIn.op = "restore"
    /\ unitIn.rm = "EPERM"
    /\ PathExists(pre.profiles, unitIn.path)
    /\ pre.live.exists
    /\ pre.live.session # NoSession
    /\ pre.profiles[Basename(unitIn.path)].session # pre.live.session
    /\ unitOut.error.name = "AntigravityRunningError"

\* C29: removeProfile(path) changes nothing but the directory at path: the
\* pointer entry, the live directory and every other profile directory are as
\* before; for a path that does not exist it returns false and the store is
\* unchanged; when it returns true the directory is gone.
C29_RemoveProfileTouchesOnlyItsDirectory ==
    unitIn.op = "remove" =>
        /\ ptr = pre.ptr
        /\ live = pre.live
        /\ \A n \in ProfileNames :
              n # Basename(unitIn.path) => profiles[n] = pre.profiles[n]
        /\ ~PathExists(pre.profiles, unitIn.path) =>
              (unitOut.value = FALSE /\ profiles = pre.profiles)
        /\ unitOut.value = TRUE => ~PathExists(profiles, unitIn.path)
        /\ unitOut.op = "returned"

\* The directory the pointer names has been removed, with another profile in
\* the store.
C29_Witness ==
    /\ unitIn.op = "remove"
    /\ unitOut.value = TRUE
    /\ pre.ptr = Symlink(unitIn.path)
    /\ ListProfiles(profiles) # {}

\* C30: after a capture no identity is held by two profile directories, and
\* the directory captured to holds the live directory's session and copied
\* entries only, whatever a directory of that name held before, a capture of
\* another identity with the same sanitised name included.
C30_LastCaptureWins ==
    /\ \A e \in Identities :
          Cardinality({ n \in ProfileNames :
                          profiles[n].exists /\ profiles[n].session = e }) <= 1
    /\ (unitIn.op = "capture" /\ unitOut.value = TRUE) =>
          /\ profiles[SafeEmail(unitIn.email)] =
                Tree(unitIn.email, (live.entries \ SpecialEntries) \ CLEANUP_DIRECTORIES)
          /\ \A n \in ProfileNames :
                n # SafeEmail(unitIn.email) => profiles[n] = pre.profiles[n]

\* A capture has replaced the profile of another identity with the same
\* sanitised name, which held an entry the live directory lacks.
C30_Witness ==
    /\ unitIn.op = "capture"
    /\ unitOut.value = TRUE
    /\ pre.profiles[SafeEmail(unitIn.email)].exists
    /\ pre.profiles[SafeEmail(unitIn.email)].session # unitIn.email
    /\ pre.profiles[SafeEmail(unitIn.email)].entries \ live.entries # {}

\* The sizes of the regular files of a profile directory that can be reached
\* through readable directories: those at the top, and those of each readable
\* subdirectory.
ReadableFileSizes(dir) ==
    IF ~dir.readable THEN << >>
    ELSE [ i \in DOMAIN dir.entries |->
             LET entry == dir.entries[i]
             IN  IF entry.kind = "file" THEN entry.size
                 ELSE IF entry.kind = "dir" /\ entry.readable
                 THEN LET sizes == [ j \in DOMAIN entry.entries |-> entry.entries[j].size ]
                      IN  IF Len(sizes) = 0 THEN 0
                          ELSE IF Len(sizes) = 1 THEN sizes[1]
                          ELSE IF Len(sizes) = 2 THEN sizes[1] + sizes[2]
                          ELSE sizes[1] + sizes[2] + sizes[3]
                 ELSE 0 ]

RECURSIVE SumSeq(_)
SumSeq(q) == IF q = << >> THEN 0 ELSE Head(q) + SumSeq(Tail(q))

\* C23: getProfileSize does not raise on a tree with unreadable directories
\* and returns the sum of the sizes of the regular files outside them.
C23_SizeSkipsUnreadable ==
    unitOut # NoUnit =>
        /\ unitOut.op = "returned"
        /\ unitOut.value = SumSeq(ReadableFileSizes(unitIn.dir))

\* A profile directory with a file and an unreadable subdirectory that holds
\* a file: the first is counted.
C23_Witness ==
    /\ unitOut # NoUnit
    /\ unitIn.dir.readable
    /\ \E i, j \in DOMAIN unitIn.dir.entries :
          /\ unitIn.dir.entries[i].kind = "dir"
          /\ ~unitIn.dir.entries[i].readable
          /\ unitIn.dir.entries[i].entries # << >>
          /\ unitIn.dir.entries[j].kind = "file"
    /\ unitOut.value > 0

\* C24: getFirstAuthSession returns none when the store yields no session, and
\* with a session under the dedicated key and a row under a generic key it
\* returns the session of the dedicated key, whatever the order of the rows.
C24_DedicatedKeyFirst ==
    (unitOut # NoUnit /\ unitIn.dbOk) =>
        LET table == unitIn.table
            dedicated == IF table[DedicatedKey] = NoRow THEN NoSession
                         ELSE ParseAntigravityAuth(table[DedicatedKey])
        IN  /\ ReadAuthSessions(unitIn.dbOk, unitOut.rows) = << >>
                => unitOut.value = NoSession
            /\ (dedicated # NoSession /\ table[GenericKey] # NoRow)
                => unitOut.value = dedicated

\* C25: after saveRefreshToken(email, s, insecure), getRefreshToken(email)
\* returns s and hasStoredToken(email) is true, whichever backend holds the
\* token; after deleteRefreshToken(email) they return none and false. Reads
\* that the keychain did not answer are left out.
C25_VaultRoundTrip ==
    (unitIn # NoUnit /\ unitOut # NoUnit /\ unitOut.email = unitIn.email
        /\ unitOut.keychainOk) =>
        /\ unitIn.op = "save" => (unitOut.value = unitIn.token /\ unitOut.has)
        /\ unitIn.op = "delete" => (unitOut.value = NoToken /\ ~unitOut.has)

\* C27: once a watchForAuth call has settled (detected or timedOut), its poll
\* interval, its file watcher and its timeout are all cancelled and it reads
\* the store no more, for any timeoutMs.
C27_SettledWatcherIsQuiet ==
    (unitIn # NoUnit /\ unitOut.status # "waitingForSignal") =>
        /\ ~unitOut.checkInterval
        /\ ~unitOut.watcher
        /\ ~unitOut.timeoutId
        /\ ~unitOut.lateRead

\* The sessions that the rows of a query result carry: the account of the
\* dedicated row and the accounts of the items under the other keys.
CarriedSessions(rows) ==
    { [ email |-> rows[i].value.email, accountId |-> rows[i].value.email ] :
        i \in { j \in DOMAIN rows : /\ rows[j].key = DedicatedKey
                                    /\ rows[j].value.json = "object"
                                    /\ rows[j].value.email # Missing } }
    \cup
    UNION { LET v == rows[i].value
                items == IF v.json = "array" THEN { v.items[k] : k \in DOMAIN v.items }
                         ELSE IF v.json = "object" THEN { v }
                         ELSE {}
            IN  { [ email |-> it.label, accountId |-> it.id ] :
                    it \in { x \in items : x.label # Missing /\ x.id # Missing } } :
            i \in { j \in DOMAIN rows : rows[j].key # DedicatedKey } }

\* C31: readAuthSessions never raises: it returns no session when the database
\* cannot be read, and otherwise exactly the sessions the rows carry, so that a
\* value that is not JSON or names no account costs no other row its session.
C31_ReadNeverRaises ==
    unitOut # NoUnit =>
        /\ unitOut.op = "returned"
        /\ ~unitIn.dbOk => unitOut.sessions = << >>
        /\ unitIn.dbOk =>
              { unitOut.sessions[i] : i \in DOMAIN unitOut.sessions }
                  = CarriedSessions(unitOut.rows)

\* A row that is not JSON was read next to a row with an account, and the
\* account was returned.
C31_Witness ==
    /\ unitOut # NoUnit
    /\ unitIn.dbOk
    /\ \E i \in DOMAIN unitOut.rows : unitOut.rows[i].value.json = "invalid"
    /\ unitOut.sessions # << >>

\* The results of switch that end it before quitAntigravity() and the swap.
EarlyExits == { "noProfiles", "single", "cancelled", "unchanged", "declined" }

\* C32: a switch that ends with fewer than two profiles, a cancelled
\* selection, the active profile selected or the quit declined leaves the
\* pointer, the live directory and every profile as they were, and ends from
\* a position before quitAntigravity() in a step that does not stop the
\* application.
C32_SwitchEarlyExitsChangeNothing ==
    /\ [](\A r \in EarlyExits : SwitchEnded(r) => Snapshot = pre)
    /\ [][ (pc # "done" /\ cmd' = "switch" /\ pc' = "done" /\ outcome' \in EarlyExits)
             => /\ pc \in { "idle", "sw_confirm" }
                /\ appRunning' = appRunning
                /\ Snapshot' = Snapshot ]_vars

\* The quit was declined while the application was running, with an active
\* profile and a live directory in place.
C32_Witness ==
    /\ SwitchEnded("declined")
    /\ appRunning
    /\ live.exists
    /\ ptr.kind = "symlink"

\* C33: a capture of identity j that returns leaves the stored profile of every
\* other identity i # j in place with its contents, for all i and j.
C33_CaptureTouchesOnlyItsIdentity ==
    (unitIn.op = "capture" /\ unitOut.op = "returned") =>
        \A n \in ProfileNames :
            (pre.profiles[n].exists /\ pre.profiles[n].session # unitIn.email)
                => profiles[n] = pre.profiles[n]

\* C34: when the store holds a profile of the detected session's identity, add
\* reaches copyDefaultProfileToStorage only through the replace confirmation,
\* which it asks when getProfileByEmail finds the profile, for every identity.
C34_NoOverwriteWithoutConfirmation ==
    [][ ( /\ cmd = "add"
          /\ pc = "add_save"
          /\ pc' = "done"
          /\ outcome' \in { "added", "failed" }
          /\ profiles[SafeEmail(session)].exists
          /\ profiles[SafeEmail(session)].session = session )
        => ProfileByEmailExists(profiles, session) ]_vars

\* C35: after a save that put the token into the keychain, the entry of the
\* account in tokens.json is the marker "[keychain]", whatever the file held
\* before, and the token is in the keychain; isTokenInKeychain is true exactly
\* for the entries that are the marker.
C35_FileHoldsOnlyMarker ==
    /\ (unitIn # NoUnit /\ unitIn.op = "save" /\ unitIn.keychain) =>
          /\ vault.file[unitIn.email] = KeychainMarker
          /\ vault.keychain[unitIn.email] = unitIn.token
    /\ \A e \in VaultEmails :
          IsTokenInKeychain(vault, e) <=> vault.file[e] = KeychainMarker

\* A keychain save for an account whose entry held a raw token.
C35_Witness ==
    /\ unitIn # NoUnit
    /\ unitIn.op = "save"
    /\ unitIn.keychain
    /\ unitIn.before \notin { NoToken, KeychainMarker }
    /\ unitIn.token # unitIn.before
    /\ vault.file[unitIn.email] = KeychainMarker

\* C36: after deleteRefreshToken(email), neither tokens.json nor the keychain
\* holds a secret of that account, whatever saves went before. Deletions in
\* which the keychain itself failed are left out.
C36_DeleteLeavesNoSecret ==
    (unitIn # NoUnit /\ unitIn.op = "delete" /\ unitIn.keychainOk) =>
        /\ vault.file[unitIn.email] = NoToken
        /\ vault.keychain[unitIn.email] = NoToken

\* C37: in the list and in the quota monitor at most one quota fetch is in
\* flight: a reload or a refresh tick during a fetch starts no second one.
C37_OneFetchInFlight == unitOut.pending <= 1

====
